---- MODULE Spec2Model ----
(***************************************************************************)
(* A model of src/app.py: the question-generator service.                  *)
(*                                                                         *)
(* Text is modelled as a sequence of one-character strings, so that the    *)
(* string operations of the code (split, strip, find, slicing, replace)    *)
(* are computed character by character as Python computes them.            *)
(***************************************************************************)
EXTENDS Integers, Sequences, FiniteSets, TLC

VARIABLES
    chunks,      \* module global `chunks`      (None or Some(list of texts))
    embeddings,  \* module global `embeddings`  (None or Some(list of vectors))
    file,        \* what load_file finds at "cleaned_transcript.txt"
    pc,          \* position of the main module body (0) and of each handler
    req,         \* the JSON body of the request each handler is serving
    loc,         \* the locals of each running call
    resp,        \* the HTTP response of each handler
    inp,         \* argument record of a direct call of a pure function
    out          \* its result (None until the call has been made)

vars == <<chunks, embeddings, file, pc, req, loc, resp, inp, out>>

serverVars == <<chunks, embeddings, file, pc, req, loc, resp>>

(***************************************************************************)
(* Python values                                                           *)
(***************************************************************************)
None == <<>>

Some(v) == <<v>>

Val(x) == x[1]

NL == "\n"

\* the characters str.strip() removes (those for which str.isspace() holds);
\* a character that has no escape in a TLA+ string is written as its code
\* point
Whitespace ==
    {"\t", NL, "U+000B", "\f", "\r", "U+001C", "U+001D", "U+001E", "U+001F",
     " ", "U+0085", "U+00A0", "U+1680", "U+2000", "U+2001", "U+2002",
     "U+2003", "U+2004", "U+2005", "U+2006", "U+2007", "U+2008", "U+2009",
     "U+200A", "U+2028", "U+2029", "U+202F", "U+205F", "U+3000"}

\* the characters for which str.isdigit() holds (Unicode 14.0.0, the
\* database of the CPython 3.11 this program runs on): the decimal digits of
\* every script, and the superscript, subscript, circled and other digit
\* forms; written as Whitespace is
Digits ==
    {"0", "1", "2", "3", "4", "5", "6", "7", "8", "9", "U+00B2", "U+00B3",
     "U+00B9", "U+0660", "U+0661", "U+0662", "U+0663", "U+0664", "U+0665",
     "U+0666", "U+0667", "U+0668", "U+0669", "U+06F0", "U+06F1", "U+06F2",
     "U+06F3", "U+06F4", "U+06F5", "U+06F6", "U+06F7", "U+06F8", "U+06F9",
     "U+07C0", "U+07C1", "U+07C2", "U+07C3", "U+07C4", "U+07C5", "U+07C6",
     "U+07C7", "U+07C8", "U+07C9", "U+0966", "U+0967", "U+0968", "U+0969",
     "U+096A", "U+096B", "U+096C", "U+096D", "U+096E", "U+096F", "U+09E6",
     "U+09E7", "U+09E8", "U+09E9", "U+09EA", "U+09EB", "U+09EC", "U+09ED",
     "U+09EE", "U+09EF", "U+0A66", "U+0A67", "U+0A68", "U+0A69", "U+0A6A",
     "U+0A6B", "U+0A6C", "U+0A6D", "U+0A6E", "U+0A6F", "U+0AE6", "U+0AE7",
     "U+0AE8", "U+0AE9", "U+0AEA", "U+0AEB", "U+0AEC", "U+0AED", "U+0AEE",
     "U+0AEF", "U+0B66", "U+0B67", "U+0B68", "U+0B69", "U+0B6A", "U+0B6B",
     "U+0B6C", "U+0B6D", "U+0B6E", "U+0B6F", "U+0BE6", "U+0BE7", "U+0BE8",
     "U+0BE9", "U+0BEA", "U+0BEB", "U+0BEC", "U+0BED", "U+0BEE", "U+0BEF",
     "U+0C66", "U+0C67", "U+0C68", "U+0C69", "U+0C6A", "U+0C6B", "U+0C6C",
     "U+0C6D", "U+0C6E", "U+0C6F", "U+0CE6", "U+0CE7", "U+0CE8", "U+0CE9",
     "U+0CEA", "U+0CEB", "U+0CEC", "U+0CED", "U+0CEE", "U+0CEF", "U+0D66",
     "U+0D67", "U+0D68", "U+0D69", "U+0D6A", "U+0D6B", "U+0D6C", "U+0D6D",
     "U+0D6E", "U+0D6F", "U+0DE6", "U+0DE7", "U+0DE8", "U+0DE9", "U+0DEA",
     "U+0DEB", "U+0DEC", "U+0DED", "U+0DEE", "U+0DEF", "U+0E50", "U+0E51",
     "U+0E52", "U+0E53", "U+0E54", "U+0E55", "U+0E56", "U+0E57", "U+0E58",
     "U+0E59", "U+0ED0", "U+0ED1", "U+0ED2", "U+0ED3", "U+0ED4", "U+0ED5",
     "U+0ED6", "U+0ED7", "U+0ED8", "U+0ED9", "U+0F20", "U+0F21", "U+0F22",
     "U+0F23", "U+0F24", "U+0F25", "U+0F26", "U+0F27", "U+0F28", "U+0F29",
     "U+1040", "U+1041", "U+1042", "U+1043", "U+1044", "U+1045", "U+1046",
     "U+1047", "U+1048", "U+1049", "U+1090", "U+1091", "U+1092", "U+1093",
     "U+1094", "U+1095", "U+1096", "U+1097", "U+1098", "U+1099", "U+1369",
     "U+136A", "U+136B", "U+136C", "U+136D", "U+136E", "U+136F", "U+1370",
     "U+1371", "U+17E0", "U+17E1", "U+17E2", "U+17E3", "U+17E4", "U+17E5",
     "U+17E6", "U+17E7", "U+17E8", "U+17E9", "U+1810", "U+1811", "U+1812",
     "U+1813", "U+1814", "U+1815", "U+1816", "U+1817", "U+1818", "U+1819",
     "U+1946", "U+1947", "U+1948", "U+1949", "U+194A", "U+194B", "U+194C",
     "U+194D", "U+194E", "U+194F", "U+19D0", "U+19D1", "U+19D2", "U+19D3",
     "U+19D4", "U+19D5", "U+19D6", "U+19D7", "U+19D8", "U+19D9", "U+19DA",
     "U+1A80", "U+1A81", "U+1A82", "U+1A83", "U+1A84", "U+1A85", "U+1A86",
     "U+1A87", "U+1A88", "U+1A89", "U+1A90", "U+1A91", "U+1A92", "U+1A93",
     "U+1A94", "U+1A95", "U+1A96", "U+1A97", "U+1A98", "U+1A99", "U+1B50",
     "U+1B51", "U+1B52", "U+1B53", "U+1B54", "U+1B55", "U+1B56", "U+1B57",
     "U+1B58", "U+1B59", "U+1BB0", "U+1BB1", "U+1BB2", "U+1BB3", "U+1BB4",
     "U+1BB5", "U+1BB6", "U+1BB7", "U+1BB8", "U+1BB9", "U+1C40", "U+1C41",
     "U+1C42", "U+1C43", "U+1C44", "U+1C45", "U+1C46", "U+1C47", "U+1C48",
     "U+1C49", "U+1C50", "U+1C51", "U+1C52", "U+1C53", "U+1C54", "U+1C55",
     "U+1C56", "U+1C57", "U+1C58", "U+1C59", "U+2070", "U+2074", "U+2075",
     "U+2076", "U+2077", "U+2078", "U+2079", "U+2080", "U+2081", "U+2082",
     "U+2083", "U+2084", "U+2085", "U+2086", "U+2087", "U+2088", "U+2089",
     "U+2460", "U+2461", "U+2462", "U+2463", "U+2464", "U+2465", "U+2466",
     "U+2467", "U+2468", "U+2474", "U+2475", "U+2476", "U+2477", "U+2478",
     "U+2479", "U+247A", "U+247B", "U+247C", "U+2488", "U+2489", "U+248A",
     "U+248B", "U+248C", "U+248D", "U+248E", "U+248F", "U+2490", "U+24EA",
     "U+24F5", "U+24F6", "U+24F7", "U+24F8", "U+24F9", "U+24FA", "U+24FB",
     "U+24FC", "U+24FD", "U+24FF", "U+2776", "U+2777", "U+2778", "U+2779",
     "U+277A", "U+277B", "U+277C", "U+277D", "U+277E", "U+2780", "U+2781",
     "U+2782", "U+2783", "U+2784", "U+2785", "U+2786", "U+2787", "U+2788",
     "U+278A", "U+278B", "U+278C", "U+278D", "U+278E", "U+278F", "U+2790",
     "U+2791", "U+2792", "U+A620", "U+A621", "U+A622", "U+A623", "U+A624",
     "U+A625", "U+A626", "U+A627", "U+A628", "U+A629", "U+A8D0", "U+A8D1",
     "U+A8D2", "U+A8D3", "U+A8D4", "U+A8D5", "U+A8D6", "U+A8D7", "U+A8D8",
     "U+A8D9", "U+A900", "U+A901", "U+A902", "U+A903", "U+A904", "U+A905",
     "U+A906", "U+A907", "U+A908", "U+A909", "U+A9D0", "U+A9D1", "U+A9D2",
     "U+A9D3", "U+A9D4", "U+A9D5", "U+A9D6", "U+A9D7", "U+A9D8", "U+A9D9",
     "U+A9F0", "U+A9F1", "U+A9F2", "U+A9F3", "U+A9F4", "U+A9F5", "U+A9F6",
     "U+A9F7", "U+A9F8", "U+A9F9", "U+AA50", "U+AA51", "U+AA52", "U+AA53",
     "U+AA54", "U+AA55", "U+AA56", "U+AA57", "U+AA58", "U+AA59", "U+ABF0",
     "U+ABF1", "U+ABF2", "U+ABF3", "U+ABF4", "U+ABF5", "U+ABF6", "U+ABF7",
     "U+ABF8", "U+ABF9", "U+FF10", "U+FF11", "U+FF12", "U+FF13", "U+FF14",
     "U+FF15", "U+FF16", "U+FF17", "U+FF18", "U+FF19", "U+104A0", "U+104A1",
     "U+104A2", "U+104A3", "U+104A4", "U+104A5", "U+104A6", "U+104A7",
     "U+104A8", "U+104A9", "U+10A40", "U+10A41", "U+10A42", "U+10A43",
     "U+10D30", "U+10D31", "U+10D32", "U+10D33", "U+10D34", "U+10D35",
     "U+10D36", "U+10D37", "U+10D38", "U+10D39", "U+10E60", "U+10E61",
     "U+10E62", "U+10E63", "U+10E64", "U+10E65", "U+10E66", "U+10E67",
     "U+10E68", "U+11052", "U+11053", "U+11054", "U+11055", "U+11056",
     "U+11057", "U+11058", "U+11059", "U+1105A", "U+11066", "U+11067",
     "U+11068", "U+11069", "U+1106A", "U+1106B", "U+1106C", "U+1106D",
     "U+1106E", "U+1106F", "U+110F0", "U+110F1", "U+110F2", "U+110F3",
     "U+110F4", "U+110F5", "U+110F6", "U+110F7", "U+110F8", "U+110F9",
     "U+11136", "U+11137", "U+11138", "U+11139", "U+1113A", "U+1113B",
     "U+1113C", "U+1113D", "U+1113E", "U+1113F", "U+111D0", "U+111D1",
     "U+111D2", "U+111D3", "U+111D4", "U+111D5", "U+111D6", "U+111D7",
     "U+111D8", "U+111D9", "U+112F0", "U+112F1", "U+112F2", "U+112F3",
     "U+112F4", "U+112F5", "U+112F6", "U+112F7", "U+112F8", "U+112F9",
     "U+11450", "U+11451", "U+11452", "U+11453", "U+11454", "U+11455",
     "U+11456", "U+11457", "U+11458", "U+11459", "U+114D0", "U+114D1",
     "U+114D2", "U+114D3", "U+114D4", "U+114D5", "U+114D6", "U+114D7",
     "U+114D8", "U+114D9", "U+11650", "U+11651", "U+11652", "U+11653",
     "U+11654", "U+11655", "U+11656", "U+11657", "U+11658", "U+11659",
     "U+116C0", "U+116C1", "U+116C2", "U+116C3", "U+116C4", "U+116C5",
     "U+116C6", "U+116C7", "U+116C8", "U+116C9", "U+11730", "U+11731",
     "U+11732", "U+11733", "U+11734", "U+11735", "U+11736", "U+11737",
     "U+11738", "U+11739", "U+118E0", "U+118E1", "U+118E2", "U+118E3",
     "U+118E4", "U+118E5", "U+118E6", "U+118E7", "U+118E8", "U+118E9",
     "U+11950", "U+11951", "U+11952", "U+11953", "U+11954", "U+11955",
     "U+11956", "U+11957", "U+11958", "U+11959", "U+11C50", "U+11C51",
     "U+11C52", "U+11C53", "U+11C54", "U+11C55", "U+11C56", "U+11C57",
     "U+11C58", "U+11C59", "U+11D50", "U+11D51", "U+11D52", "U+11D53",
     "U+11D54", "U+11D55", "U+11D56", "U+11D57", "U+11D58", "U+11D59",
     "U+11DA0", "U+11DA1", "U+11DA2", "U+11DA3", "U+11DA4", "U+11DA5",
     "U+11DA6", "U+11DA7", "U+11DA8", "U+11DA9", "U+16A60", "U+16A61",
     "U+16A62", "U+16A63", "U+16A64", "U+16A65", "U+16A66", "U+16A67",
     "U+16A68", "U+16A69", "U+16AC0", "U+16AC1", "U+16AC2", "U+16AC3",
     "U+16AC4", "U+16AC5", "U+16AC6", "U+16AC7", "U+16AC8", "U+16AC9",
     "U+16B50", "U+16B51", "U+16B52", "U+16B53", "U+16B54", "U+16B55",
     "U+16B56", "U+16B57", "U+16B58", "U+16B59", "U+1D7CE", "U+1D7CF",
     "U+1D7D0", "U+1D7D1", "U+1D7D2", "U+1D7D3", "U+1D7D4", "U+1D7D5",
     "U+1D7D6", "U+1D7D7", "U+1D7D8", "U+1D7D9", "U+1D7DA", "U+1D7DB",
     "U+1D7DC", "U+1D7DD", "U+1D7DE", "U+1D7DF", "U+1D7E0", "U+1D7E1",
     "U+1D7E2", "U+1D7E3", "U+1D7E4", "U+1D7E5", "U+1D7E6", "U+1D7E7",
     "U+1D7E8", "U+1D7E9", "U+1D7EA", "U+1D7EB", "U+1D7EC", "U+1D7ED",
     "U+1D7EE", "U+1D7EF", "U+1D7F0", "U+1D7F1", "U+1D7F2", "U+1D7F3",
     "U+1D7F4", "U+1D7F5", "U+1D7F6", "U+1D7F7", "U+1D7F8", "U+1D7F9",
     "U+1D7FA", "U+1D7FB", "U+1D7FC", "U+1D7FD", "U+1D7FE", "U+1D7FF",
     "U+1E140", "U+1E141", "U+1E142", "U+1E143", "U+1E144", "U+1E145",
     "U+1E146", "U+1E147", "U+1E148", "U+1E149", "U+1E2F0", "U+1E2F1",
     "U+1E2F2", "U+1E2F3", "U+1E2F4", "U+1E2F5", "U+1E2F6", "U+1E2F7",
     "U+1E2F8", "U+1E2F9", "U+1E950", "U+1E951", "U+1E952", "U+1E953",
     "U+1E954", "U+1E955", "U+1E956", "U+1E957", "U+1E958", "U+1E959",
     "U+1F100", "U+1F101", "U+1F102", "U+1F103", "U+1F104", "U+1F105",
     "U+1F106", "U+1F107", "U+1F108", "U+1F109", "U+1F10A", "U+1FBF0",
     "U+1FBF1", "U+1FBF2", "U+1FBF3", "U+1FBF4", "U+1FBF5", "U+1FBF6",
     "U+1FBF7", "U+1FBF8", "U+1FBF9"}

Min(a, b) == IF a <= b THEN a ELSE b

Rep(c, n) == [i \in 1..n |-> c]

\* s[i:] for a 0-based Python index i >= 0
From(s, i) == SubSeq(s, i + 1, Len(s))

\* s[:n] for n >= 0
Prefix(s, n) == SubSeq(s, 1, Min(n, Len(s)))

\* whether sub occurs in s at 1-based position i
OccursAt(s, sub, i) ==
    /\ i + Len(sub) - 1 <= Len(s)
    /\ SubSeq(s, i, i + Len(sub) - 1) = sub

\* sub in s
Contains(s, sub) == \E i \in 1..(Len(s) + 1) : OccursAt(s, sub, i)

\* s.find(sub): the 0-based index of the first occurrence, -1 if none
Find(s, sub) ==
    IF Contains(s, sub)
    THEN (CHOOSE i \in 1..(Len(s) + 1) :
            /\ OccursAt(s, sub, i)
            /\ \A j \in 1..(i - 1) : ~OccursAt(s, sub, j)) - 1
    ELSE -1

\* the 1-based position of the first occurrence of sub in s at or after
\* position i, 0 if there is none
NextOccurrence(s, sub, i) ==
    LET at == {j \in i..Len(s) : OccursAt(s, sub, j)}
    IN  IF at = {} THEN 0 ELSE CHOOSE j \in at : \A k \in at : j <= k

\* s.split(sep): left to right, non-overlapping; always at least one part
RECURSIVE SplitFrom(_, _, _)
SplitFrom(s, sep, i) ==
    LET j == NextOccurrence(s, sep, i)
    IN  IF j = 0 THEN <<SubSeq(s, i, Len(s))>>
        ELSE <<SubSeq(s, i, j - 1)>> \o SplitFrom(s, sep, j + Len(sep))

Split(s, sep) == SplitFrom(s, sep, 1)

\* s.replace(old, ""), from position i on
RECURSIVE Remove(_, _, _)
Remove(s, old, i) ==
    LET j == NextOccurrence(s, old, i)
    IN  IF j = 0 THEN SubSeq(s, i, Len(s))
        ELSE SubSeq(s, i, j - 1) \o Remove(s, old, j + Len(old))

\* s.strip()
Strip(s) ==
    LET keep == {i \in 1..Len(s) : s[i] \notin Whitespace}
    IN  IF keep = {} THEN <<>>
        ELSE LET lo == CHOOSE i \in keep : \A j \in keep : i <= j
                 hi == CHOOSE i \in keep : \A j \in keep : j <= i
             IN  SubSeq(s, lo, hi)

(***************************************************************************)
(* chunk_text                                                              *)
(***************************************************************************)
DotSpace == <<".", " ">>

\* "Sample text for empty transcript"
SampleEmptyTranscript ==
    <<"S","a","m","p","l","e"," ","t","e","x","t"," ","f","o","r"," ",
      "e","m","p","t","y"," ","t","r","a","n","s","c","r","i","p","t">>

\* the for loop of chunk_text over sentences[i..], with the chunks flushed
\* so far and the running buffer
RECURSIVE ChunkLoop(_, _, _, _, _)
ChunkLoop(sentences, i, done, current_chunk, chunk_size) ==
    IF i > Len(sentences) THEN [chunks |-> done, current_chunk |-> current_chunk]
    ELSE IF Len(current_chunk) + Len(sentences[i]) <= chunk_size
         THEN ChunkLoop(sentences, i + 1, done,
                        current_chunk \o sentences[i] \o DotSpace, chunk_size)
         ELSE ChunkLoop(sentences, i + 1, Append(done, Strip(current_chunk)),
                        sentences[i] \o DotSpace, chunk_size)

chunk_text(text, chunk_size) ==
    IF text = <<>> THEN <<SampleEmptyTranscript>>
    ELSE LET r == ChunkLoop(Split(text, DotSpace), 1, <<>>, <<>>, chunk_size)
         IN  IF r.current_chunk # <<>>
             THEN Append(r.chunks, Strip(r.current_chunk))
             ELSE r.chunks

(***************************************************************************)
(* semantic_search                                                         *)
(***************************************************************************)
\* embed_model.encode of one text.  The sentence-transformer is an opaque
\* deterministic collaborator; the model uses a fixed two-coordinate
\* stand-in that depends on the text only.
Embed(text) == <<Len(text) % 3, (Len(text) \div 3) % 3>>

\* embed_model.encode(list): one vector per text, in order
Encode(texts) == [i \in 1..Len(texts) |-> Embed(texts[i])]

RECURSIVE SumSquares(_, _, _)
SumSquares(u, v, i) ==
    IF i > Len(u) THEN 0
    ELSE (u[i] - v[i]) * (u[i] - v[i]) + SumSquares(u, v, i + 1)

\* np.linalg.norm(embeddings - query_embedding, axis=1).  The norm is the
\* square root of the sum of squares; only the order of the distances is
\* used, and the square root keeps it, so the sum of squares stands for it.
Distances(embs, query_embedding) ==
    [i \in 1..Len(embs) |-> SumSquares(embs[i], query_embedding, 1)]

\* np.argsort(distances) with the default kind: an ascending order of the
\* indices.  The default sort is not stable, so the order among equal
\* distances is whatever the NumPy build produces: every ascending order is
\* a possible result.
Argsort(distances) ==
    {p \in Permutations(1..Len(distances)) :
        \A i, j \in 1..Len(distances) :
            i < j => distances[p[i]] <= distances[p[j]]}

\* the possible results of semantic_search given the query's embedding:
\* [raised |-> FALSE, value |-> chunks] or an IndexError from chunks[i]
semantic_search(query_text, chks, embs, top_k) ==
    LET distances == Distances(embs, Embed(query_text))
    IN  {LET top_indices == Prefix(p, top_k)
         IN  IF \E k \in 1..Len(top_indices) : top_indices[k] > Len(chks)
             THEN [raised |-> TRUE, value |-> <<>>]
             ELSE [raised |-> FALSE,
                   value |-> [k \in 1..Len(top_indices) |-> chks[top_indices[k]]]]
         : p \in Argsort(distances)}

(***************************************************************************)
(* generate_questions                                                      *)
(***************************************************************************)
\* "Error generating questions. Please check logs."
GenerationErrorText ==
    <<"E","r","r","o","r"," ","g","e","n","e","r","a","t","i","n","g"," ",
      "q","u","e","s","t","i","o","n","s","."," ","P","l","e","a","s","e",
      " ","c","h","e","c","k"," ","l","o","g","s",".">>

\* a bug that lets the exception of the external call escape
generate_questions_propagating(response) ==
    [raised |-> ~response.ok, value |-> Strip(response.text)]

\* generate_questions, given what the external generation call did:
\* response.ok with its text, or an exception
generate_questions(response) ==
    IF response.ok
    THEN [raised |-> FALSE, value |-> Strip(response.text)]
    ELSE [raised |-> FALSE, value |-> GenerationErrorText]

(***************************************************************************)
(* parse_questions                                                         *)
(***************************************************************************)
\* "Objective Questions:"
ObjectiveMarker ==
    <<"O","b","j","e","c","t","i","v","e"," ","Q","u","e","s","t","i","o",
      "n","s",":">>

\* "Short Answer Questions:"
ShortAnswerMarker ==
    <<"S","h","o","r","t"," ","A","n","s","w","e","r"," ","Q","u","e","s",
      "t","i","o","n","s",":">>

\* a bug that looks for ". " in question[:2], where it never fits
NumberPrefixRemoved_Slice2(question) ==
    IF Contains(Prefix(question, 2), DotSpace)
    THEN From(question, Find(question, DotSpace) + 2)
    ELSE question

\* if ". " in question[:3]: question = question[question.find(". ")+2:]
NumberPrefixRemoved(question) ==
    IF Contains(Prefix(question, 3), DotSpace)
    THEN From(question, Find(question, DotSpace) + 2)
    ELSE question

\* line.strip() and any(c.isdigit() for c in line[:2])
IsNumberedLine(line) ==
    /\ Strip(line) # <<>>
    /\ \E k \in 1..Len(Prefix(line, 2)) : line[k] \in Digits

\* one of the two for loops over part.split("\n")
RECURSIVE ExtractQuestions(_, _)
ExtractQuestions(lines, i) ==
    IF i > Len(lines) THEN <<>>
    ELSE IF IsNumberedLine(lines[i])
         THEN <<NumberPrefixRemoved(Strip(lines[i]))>> \o ExtractQuestions(lines, i + 1)
         ELSE ExtractQuestions(lines, i + 1)

parse_questions(questions_text) ==
    IF /\ Contains(questions_text, ObjectiveMarker)
       /\ Contains(questions_text, ShortAnswerMarker)
    THEN LET parts == Split(questions_text, ShortAnswerMarker)
             obj_part == Strip(Remove(parts[1], ObjectiveMarker, 1))
             subj_part == Strip(parts[2])
         IN  [objective |-> ExtractQuestions(Split(obj_part, <<NL>>), 1),
              subjective |-> ExtractQuestions(Split(subj_part, <<NL>>), 1)]
    ELSE [objective |-> <<>>, subjective |-> <<>>]

(***************************************************************************)
(* Direct calls of the pure functions                                      *)
(***************************************************************************)
\* the server side at rest, for the specifications that only call a function
ServerAtRest ==
    /\ chunks = None
    /\ embeddings = None
    /\ file = <<>>
    /\ pc = <<>>
    /\ req = <<>>
    /\ loc = <<>>
    /\ resp = <<>>

SeqsUpTo(A, n) == UNION {[1..k -> A] : k \in 0..n}

MaxTextLen == 5

MaxBudget == 4

ChunkAlphabet == {"a", ".", " ", "\t"}

InitChunk ==
    /\ ServerAtRest
    /\ inp \in [text : SeqsUpTo(ChunkAlphabet, MaxTextLen), chunk_size : 1..MaxBudget]
    /\ out = None

CallChunkText ==
    /\ out = None
    /\ out' = Some(chunk_text(inp.text, inp.chunk_size))
    /\ UNCHANGED <<inp, serverVars>>

SpecChunk == InitChunk /\ [][CallChunkText]_vars

MaxStore == 3

MaxCoord == 2

MaxTopK == 3

\* the digits 0..9 as ASCII writes them
AsciiNumerals == <<"0", "1", "2", "3", "4", "5", "6", "7", "8", "9">>

\* n < 100 written in decimal with the digits of one script
Decimal(numerals, n) ==
    IF n < 10 THEN <<numerals[n + 1]>>
    ELSE <<numerals[(n \div 10) + 1], numerals[(n % 10) + 1]>>

\* the texts of the stored chunks: "c1", "c2", ...
StoredChunk(i) == <<"c">> \o Decimal(AsciiNumerals, i)

QueryTexts == {<<>>, <<"a">>, <<"a", "b">>, <<"a", "b", "c", "d">>}

InitSearch ==
    /\ ServerAtRest
    /\ \E n \in 1..MaxStore :
         inp \in [query_text : QueryTexts,
                  chunks : {[i \in 1..n |-> StoredChunk(i)]},
                  embeddings : [1..n -> (0..MaxCoord) \X (0..MaxCoord)],
                  top_k : 0..MaxTopK]
    /\ out = None

CallSemanticSearch ==
    /\ out = None
    /\ \E r \in semantic_search(inp.query_text, inp.chunks, inp.embeddings, inp.top_k) :
         out' = Some(r)
    /\ UNCHANGED <<inp, serverVars>>

SpecSearch == InitSearch /\ [][CallSemanticSearch]_vars

MaxIndent == 2

MaxFirstNumber == 10

QuestionTexts == {<<"a", "b">>, <<"3", "D", " ", "x">>, <<"a", ".", " ", "b">>}

\* the line endings a reply may use: "\n" or "\r\n"
LineEndings == {<<NL>>, <<"\r", NL>>}

IndentChars == {" ", "\t"}

\* the digits 0..9 as Arabic-Indic writes them
ArabicIndicNumerals ==
    <<"U+0660", "U+0661", "U+0662", "U+0663", "U+0664", "U+0665", "U+0666",
      "U+0667", "U+0668", "U+0669">>

\* the scripts a reply may number its lines in
Numerals == {AsciiNumerals, ArabicIndicNumerals}

NumberedLine(l, n, text) ==
    Rep(l.indent_char, l.indent) \o Decimal(l.numerals, n) \o DotSpace \o text

Section(marker, l, q1, q2) ==
    marker \o l.eol \o NumberedLine(l, l.first_number, q1)
           \o l.eol \o NumberedLine(l, l.first_number + 1, q2)

\* a reply of the generator laid out as the prompt asks, up to the order of
\* the sections, the indentation of the numbered lines, their numbering and
\* the script of the numbers
Reply(l) ==
    LET obj == Section(ObjectiveMarker, l, l.objective[1], l.objective[2])
        subj == Section(ShortAnswerMarker, l, l.subjective[1], l.subjective[2])
    IN  IF l.objective_first THEN obj \o l.eol \o subj ELSE subj \o l.eol \o obj

InitParse ==
    /\ ServerAtRest
    /\ inp \in [objective_first : BOOLEAN,
                indent : 0..MaxIndent,
                indent_char : IndentChars,
                eol : LineEndings,
                numerals : Numerals,
                first_number : 1..MaxFirstNumber,
                objective : QuestionTexts \X QuestionTexts,
                subjective : QuestionTexts \X QuestionTexts]
    /\ out = None

CallParseQuestions ==
    /\ out = None
    /\ out' = Some(parse_questions(Reply(inp)))
    /\ UNCHANGED <<inp, serverVars>>

SpecParse == InitParse /\ [][CallParseQuestions]_vars

(***************************************************************************)
(* The service: module body, initialize_vector_db, the two routes          *)
(***************************************************************************)
\* the main module body, and the threads of the WSGI server that run the
\* request handlers
Main == 0

Threads == {1, 2}

Procs == {Main} \cup Threads

DefaultChunkSize == 500

LongSentenceLen == 300

\* "Sample content for initialization"
SampleInitContent ==
    <<"S","a","m","p","l","e"," ","c","o","n","t","e","n","t"," ","f","o",
      "r"," ","i","n","i","t","i","a","l","i","z","a","t","i","o","n">>

\* "Sample content for error case"
SampleErrorContent ==
    <<"S","a","m","p","l","e"," ","c","o","n","t","e","n","t"," ","f","o",
      "r"," ","e","r","r","o","r"," ","c","a","s","e">>

\* "Missing required parameters. Please provide 'course_outcome' and 'bloom_level'."
MissingParametersError ==
    <<"M","i","s","s","i","n","g"," ","r","e","q","u","i","r","e","d"," ",
      "p","a","r","a","m","e","t","e","r","s","."," ","P","l","e","a","s",
      "e"," ","p","r","o","v","i","d","e"," ","'","c","o","u","r","s","e",
      "_","o","u","t","c","o","m","e","'"," ","a","n","d"," ","'","b","l",
      "o","o","m","_","l","e","v","e","l","'",".">>

\* str(e) of the IndexError of chunks[i]: "list index out of range"
IndexErrorText ==
    <<"l","i","s","t"," ","i","n","d","e","x"," ","o","u","t"," ","o","f",
      " ","r","a","n","g","e">>

\* str(e) of an exception raised inside an external library (a stand-in: the
\* text is the library's)
LibraryErrorText == <<"c","a","l","l"," ","f","a","i","l","e","d">>

\* the body Flask sends for an exception no handler code catches
InternalServerErrorText ==
    <<"I","n","t","e","r","n","a","l"," ","S","e","r","v","e","r"," ",
      "E","r","r","o","r">>

\* two sentences that do not fit one chunk of the default size together
LongTranscript ==
    Rep("a", LongSentenceLen) \o DotSpace \o Rep("b", LongSentenceLen)

ShortTranscript == <<"a", "b", ".", " ", "c", "d">>

\* the source file: absent, empty, or holding a transcript
FileStates ==
    {[exists |-> FALSE, content |-> <<>>]}
    \cup {[exists |-> TRUE, content |-> c] : c \in {<<>>, ShortTranscript, LongTranscript}}

\* load_file: the text, or "" when open/read raises
load_file(f) == IF f.exists THEN f.content ELSE <<>>

CourseOutcomes == {<<"C", "O", "1">>, <<"C", "O", "1", "2">>}

BloomLevel == <<"U", "n", "d", "e", "r", "s", "t", "a", "n", "d">>

\* "course_outcome"
CourseOutcomeKey ==
    <<"c","o","u","r","s","e","_","o","u","t","c","o","m","e">>

\* "bloom_level"
BloomLevelKey == <<"b","l","o","o","m","_","l","e","v","e","l">>

\* a JSON value as request.get_json() returns it: None, a bool, a number, a
\* str, a list of strs, or a dict that may hold the two keys
JsonValue(kind, truthy, text, items, co, bloom) ==
    [kind |-> kind, truthy |-> truthy, text |-> text, items |-> items,
     course_outcome |-> co, bloom_level |-> bloom]

JsonNull == JsonValue("null", FALSE, <<>>, <<>>, None, None)

JsonObjects ==
    {JsonValue("object", co # None \/ bloom # None, <<>>, <<>>, co, bloom) :
        co \in {None} \cup {Some(c) : c \in CourseOutcomes},
        bloom \in {None, Some(BloomLevel)}}

JsonArrays ==
    {JsonValue("array", items # <<>>, <<>>, items, None, None) :
        items \in {<<>>, <<CourseOutcomeKey>>, <<CourseOutcomeKey, BloomLevelKey>>}}

JsonStrings ==
    {JsonValue("string", text # <<>>, text, <<>>, None, None) :
        text \in {<<>>, CourseOutcomeKey \o <<" ">> \o BloomLevelKey}}

JsonScalars ==
    {JsonNull}
    \cup {JsonValue(k, b, <<>>, <<>>, None, None) : k \in {"bool", "number"}, b \in BOOLEAN}

\* the bodies of a POST /generate-questions
Bodies ==
    [route : {"/generate-questions"},
     data : JsonObjects \cup JsonArrays \cup JsonStrings \cup JsonScalars]

NoRequest == [route |-> "", data |-> JsonNull]

StatusRequest == [route |-> "/", data |-> JsonNull]

\* key in data: membership in a dict, a list or a str; a TypeError for a
\* bool or a number
KeyIn(key, data) ==
    CASE data.kind = "object" ->
           [raised |-> FALSE,
            value |-> IF key = CourseOutcomeKey THEN data.course_outcome # None
                      ELSE data.bloom_level # None]
      [] data.kind = "array" ->
           [raised |-> FALSE, value |-> \E i \in 1..Len(data.items) : data.items[i] = key]
      [] data.kind = "string" ->
           [raised |-> FALSE, value |-> Contains(data.text, key)]
      [] OTHER -> [raised |-> TRUE, value |-> FALSE]

\* lines 190-196: "missing" (the 400 of line 191), "ok" with both values
\* read, or "raised": a TypeError of the `in` of line 190 or of the
\* data[...] of lines 195-196, which no handler code catches
ValidateOutcome(data) ==
    IF ~data.truthy THEN "missing"
    ELSE LET co == KeyIn(CourseOutcomeKey, data)
         IN  IF co.raised THEN "raised"
             ELSE IF ~co.value THEN "missing"
             ELSE LET bloom == KeyIn(BloomLevelKey, data)
                  IN  IF bloom.raised THEN "raised"
                      ELSE IF ~bloom.value THEN "missing"
                      ELSE IF data.kind # "object" THEN "raised"
                      ELSE "ok"

\* what the external generation call does: raises, or returns a text
GeneratorResponses ==
    {[ok |-> FALSE, text |-> <<>>]}
    \cup {[ok |-> TRUE, text |-> t] :
            t \in {<<"a", "b">>,
                   Reply([objective_first |-> TRUE, indent |-> 0, indent_char |-> " ",
                          eol |-> <<NL>>, numerals |-> AsciiNumerals,
                          first_number |-> 1,
                          objective |-> <<<<"a", "b">>, <<"3", "D", " ", "x">>>>,
                          subjective |-> <<<<"a", ".", " ", "b">>, <<"a", "b">>>>])
                   \o <<NL>>}}

NoQuestions == [objective |-> <<>>, subjective |-> <<>>]

NoResponse ==
    [status |-> 0, error |-> <<>>, raw_text |-> <<>>, questions |-> NoQuestions]

ErrorResponse(status, text) ==
    [status |-> status, error |-> text, raw_text |-> <<>>, questions |-> NoQuestions]

NoLocals == [enc |-> <<>>, best_chunk |-> <<>>, generation_failed |-> FALSE]

Init ==
    /\ chunks = None
    /\ embeddings = None
    /\ file \in FileStates
    /\ pc = [p \in Procs |-> IF p = Main THEN "boot" ELSE "idle"]
    /\ req = [t \in Threads |-> NoRequest]
    /\ loc = [p \in Procs |-> NoLocals]
    /\ resp = [t \in Threads |-> NoResponse]
    /\ inp = <<>>
    /\ out = None

InitPcs ==
    {"init_try", "init_encode", "init_store", "init_except",
     "init_except_encode", "init_except_store"}

\* p is inside a call of initialize_vector_db
InInit(p) == pc[p] \in InitPcs

\* the module body is single-threaded: the handlers run once it is over
Serving == pc[Main] = "serving"

\* line 225: the module body calls initialize_vector_db
StartupBegin ==
    /\ pc[Main] = "boot"
    /\ pc' = [pc EXCEPT ![Main] = "init_try"]
    /\ UNCHANGED <<chunks, embeddings, file, req, loc, resp, inp, out>>

Runs(p) == p = Main \/ Serving

\* lines 147-149, 153-154: load the file, chunk it (or take the sample), and
\* assign the global chunks
InitTry(p) ==
    /\ Runs(p)
    /\ pc[p] = "init_try"
    /\ LET transcript == load_file(file)
       IN  chunks' = IF transcript # <<>>
                     THEN Some(chunk_text(transcript, DefaultChunkSize))
                     ELSE Some(<<SampleInitContent>>)
    /\ pc' = [pc EXCEPT ![p] = "init_encode"]
    /\ UNCHANGED <<embeddings, file, req, loc, resp, inp, out>>

\* a bug that embeds the first chunk only
InitEncode_FirstChunkOnly(p) ==
    /\ Runs(p)
    /\ pc[p] = "init_encode"
    /\ loc' = [loc EXCEPT ![p].enc = Encode(<<Val(chunks)[1]>>)]
    /\ pc' = [pc EXCEPT ![p] = "init_store"]
    /\ UNCHANGED <<chunks, embeddings, file, req, resp, inp, out>>

\* lines 150, 155: embed_model.encode(chunks) reads the global chunks and
\* returns the vectors, or raises
InitEncode(p) ==
    /\ Runs(p)
    /\ pc[p] = "init_encode"
    /\ \/ /\ loc' = [loc EXCEPT ![p].enc = Encode(Val(chunks))]
          /\ pc' = [pc EXCEPT ![p] = "init_store"]
       \/ /\ pc' = [pc EXCEPT ![p] = "init_except"]
          /\ UNCHANGED loc
    /\ UNCHANGED <<chunks, embeddings, file, req, resp, inp, out>>

\* lines 150, 155: the assignment of the global embeddings
InitStore(p) ==
    /\ Runs(p)
    /\ pc[p] = "init_store"
    /\ embeddings' = Some(loc[p].enc)
    /\ pc' = [pc EXCEPT ![p] = "init_return"]
    /\ UNCHANGED <<chunks, file, req, loc, resp, inp, out>>

\* line 158: the except branch assigns the fallback chunk
InitExcept(p) ==
    /\ Runs(p)
    /\ pc[p] = "init_except"
    /\ chunks' = Some(<<SampleErrorContent>>)
    /\ pc' = [pc EXCEPT ![p] = "init_except_encode"]
    /\ UNCHANGED <<embeddings, file, req, loc, resp, inp, out>>

\* line 159: embed_model.encode(chunks) inside the except branch; an
\* exception here leaves initialize_vector_db
InitExceptEncode(p) ==
    /\ Runs(p)
    /\ pc[p] = "init_except_encode"
    /\ \/ /\ loc' = [loc EXCEPT ![p].enc = Encode(Val(chunks))]
          /\ pc' = [pc EXCEPT ![p] = "init_except_store"]
       \/ /\ pc' = [pc EXCEPT ![p] = "init_raise"]
          /\ UNCHANGED loc
    /\ UNCHANGED <<chunks, embeddings, file, req, resp, inp, out>>

\* line 159: the assignment of the global embeddings
InitExceptStore(p) ==
    /\ Runs(p)
    /\ pc[p] = "init_except_store"
    /\ embeddings' = Some(loc[p].enc)
    /\ pc' = [pc EXCEPT ![p] = "init_return"]
    /\ UNCHANGED <<chunks, file, req, loc, resp, inp, out>>

\* initialize_vector_db returns to its caller: the module body goes on to
\* serve (line 225), a handler goes on to read the request (line 188)
InitReturn(p) ==
    /\ Runs(p)
    /\ pc[p] = "init_return"
    /\ pc' = [pc EXCEPT ![p] = IF p = Main THEN "serving" ELSE "validate"]
    /\ loc' = [loc EXCEPT ![p].enc = <<>>]
    /\ UNCHANGED <<chunks, embeddings, file, req, resp, inp, out>>

\* the exception of line 159 leaves the caller too: the module body dies
\* (line 225), a handler's request is answered by Flask's own 500 (line 185
\* is outside the try of line 198)
InitRaise(p) ==
    /\ Runs(p)
    /\ pc[p] = "init_raise"
    /\ pc' = [pc EXCEPT ![p] = IF p = Main THEN "crashed" ELSE "done"]
    /\ resp' = IF p = Main THEN resp
               ELSE [resp EXCEPT ![p] = ErrorResponse(500, InternalServerErrorText)]
    /\ UNCHANGED <<chunks, embeddings, file, req, loc, inp, out>>

\* GET /: api_status describes the service and touches nothing else
ApiStatus(t) ==
    /\ Serving
    /\ pc[t] = "idle"
    /\ req' = [req EXCEPT ![t] = StatusRequest]
    /\ resp' = [resp EXCEPT ![t] =
                  [status |-> 200, error |-> <<>>, raw_text |-> <<>>,
                   questions |-> NoQuestions]]
    /\ pc' = [pc EXCEPT ![t] = "done"]
    /\ UNCHANGED <<chunks, embeddings, file, loc, inp, out>>

\* POST /generate-questions reaches a free thread; the app serves only
\* once the module body, with the build of line 225, has returned
Arrive(t) ==
    /\ Serving
    /\ pc[t] = "idle"
    /\ \E body \in Bodies : req' = [req EXCEPT ![t] = body]
    /\ pc' = [pc EXCEPT ![t] = "enter"]
    /\ UNCHANGED <<chunks, embeddings, file, loc, resp, inp, out>>

\* line 184: if chunks is None or embeddings is None: initialize_vector_db()
Enter(t) ==
    /\ Serving
    /\ pc[t] = "enter"
    /\ IF chunks = None \/ embeddings = None
       THEN pc' = [pc EXCEPT ![t] = "init_try"]
       ELSE pc' = [pc EXCEPT ![t] = "validate"]
    /\ UNCHANGED <<chunks, embeddings, file, req, loc, resp, inp, out>>

\* lines 188-196: the body must hold both keys
Validate(t) ==
    /\ Serving
    /\ pc[t] = "validate"
    /\ LET outcome == ValidateOutcome(req[t].data)
       IN  CASE outcome = "missing" ->
                  /\ resp' = [resp EXCEPT ![t] = ErrorResponse(400, MissingParametersError)]
                  /\ pc' = [pc EXCEPT ![t] = "done"]
             [] outcome = "raised" ->
                  /\ resp' = [resp EXCEPT ![t] = ErrorResponse(500, InternalServerErrorText)]
                  /\ pc' = [pc EXCEPT ![t] = "done"]
             [] OTHER ->
                  /\ pc' = [pc EXCEPT ![t] = "search"]
                  /\ UNCHANGED resp
    /\ UNCHANGED <<chunks, embeddings, file, req, loc, inp, out>>

\* a bug that drops the store when retrieval fails, to have it rebuilt
Search_DroppingStore(t) ==
    /\ Serving
    /\ pc[t] = "search"
    /\ resp' = [resp EXCEPT ![t] = ErrorResponse(500, LibraryErrorText)]
    /\ pc' = [pc EXCEPT ![t] = "done"]
    /\ chunks' = None
    /\ embeddings' = None
    /\ UNCHANGED <<file, req, loc, inp, out>>

\* line 200: semantic_search(selected_co, chunks, embeddings, top_k=1)[0]
\* on the globals as they are now; the embedder may raise on the query, and
\* any exception is answered by the except of line 214
Search(t) ==
    /\ Serving
    /\ pc[t] = "search"
    /\ \/ /\ resp' = [resp EXCEPT ![t] = ErrorResponse(500, LibraryErrorText)]
          /\ pc' = [pc EXCEPT ![t] = "done"]
          /\ UNCHANGED loc
       \/ \E r \in semantic_search(Val(req[t].data.course_outcome), Val(chunks),
                                   Val(embeddings), 1) :
            IF r.raised \/ r.value = <<>>
            THEN /\ resp' = [resp EXCEPT ![t] = ErrorResponse(500, IndexErrorText)]
                 /\ pc' = [pc EXCEPT ![t] = "done"]
                 /\ UNCHANGED loc
            ELSE /\ loc' = [loc EXCEPT ![t].best_chunk = r.value[1]]
                 /\ pc' = [pc EXCEPT ![t] = "generate"]
                 /\ UNCHANGED resp
    /\ UNCHANGED <<chunks, embeddings, file, req, inp, out>>

\* lines 201-217: generate, parse, answer
Generate(t) ==
    /\ Serving
    /\ pc[t] = "generate"
    /\ \E response \in GeneratorResponses :
         LET questions_text == generate_questions(response)
         IN  /\ loc' = [loc EXCEPT ![t].generation_failed = ~response.ok]
             /\ resp' = [resp EXCEPT ![t] =
                           IF questions_text.raised
                           THEN ErrorResponse(500, LibraryErrorText)
                           ELSE [status |-> 200, error |-> <<>>,
                                 raw_text |-> questions_text.value,
                                 questions |-> parse_questions(questions_text.value)]]
    /\ pc' = [pc EXCEPT ![t] = "done"]
    /\ UNCHANGED <<chunks, embeddings, file, req, inp, out>>

\* the response is sent, the handler's frame is gone and the thread is
\* free again
Finish(t) ==
    /\ Serving
    /\ pc[t] = "done"
    /\ pc' = [pc EXCEPT ![t] = "idle"]
    /\ req' = [req EXCEPT ![t] = NoRequest]
    /\ loc' = [loc EXCEPT ![t] = NoLocals]
    /\ resp' = [resp EXCEPT ![t] = NoResponse]
    /\ UNCHANGED <<chunks, embeddings, file, inp, out>>

Next ==
    \/ StartupBegin
    \/ \E p \in Procs :
         \/ InitTry(p)
         \/ InitEncode(p)
         \/ InitStore(p)
         \/ InitExcept(p)
         \/ InitExceptEncode(p)
         \/ InitExceptStore(p)
         \/ InitReturn(p)
         \/ InitRaise(p)
    \/ \E t \in Threads :
         \/ ApiStatus(t)
         \/ Arrive(t)
         \/ Enter(t)
         \/ Validate(t)
         \/ Search(t)
         \/ Generate(t)
         \/ Finish(t)

Spec == Init /\ [][Next]_vars

(***************************************************************************)
(* Properties                                                              *)
(***************************************************************************)
StoreSet == chunks # None /\ embeddings # None

StoreBuilt ==
    /\ StoreSet
    /\ Len(Val(chunks)) > 0
    /\ Len(Val(embeddings)) > 0

\* C1: whenever initialize_vector_db returns or is left by an exception,
\* chunks is a non-empty list and embeddings is set, whatever the file
\* holds and whichever calls of the embedder raise.
C1_StoreBuiltWhenInitEnds ==
    \A p \in Procs : pc[p] \in {"init_return", "init_raise"} => StoreBuilt

\* C2: two requests that find the store unset at the same time cause one
\* run of initialize_vector_db, not two: the handlers are never both inside
\* it.
C2_SingleStoreBuild ==
    \A t, u \in Threads : t # u => ~(InInit(t) /\ InInit(u))

\* the case C2 is about: a handler finds the store unset at line 184
C2_RequestFindsStoreUnset ==
    \E t \in Threads : pc[t] = "enter" /\ ~StoreSet

\* C3: where a handler reads the store for retrieval (the semantic_search
\* call of line 200), there are as many embeddings as chunks.
C3_EmbeddingsParallelChunks ==
    \A t \in Threads :
        pc[t] = "search" => Len(Val(embeddings)) = Len(Val(chunks))

\* C3 witness: a handler is at the semantic_search call while the other is
\* serving a request too, on a store of two chunks.
C3_Witness ==
    /\ pc[1] = "search"
    /\ pc[2] \in {"search", "generate"}
    /\ Len(Val(chunks)) = 2

\* the body has no field course_outcome or no field bloom_level
LacksField(data) ==
    \/ data.kind # "object"
    \/ data.course_outcome = None
    \/ data.bloom_level = None

\* C4: a generate-questions request whose body lacks course_outcome or
\* bloom_level is answered 400 with the missing-parameters message,
\* whatever the store was when it arrived.
C4_MissingFieldsAnswered400 ==
    \A t \in Threads :
        (/\ pc[t] = "done"
         /\ req[t].route = "/generate-questions"
         /\ LacksField(req[t].data))
        => (resp[t].status = 400 /\ resp[t].error = MissingParametersError)

\* C5: once chunks and embeddings are both set, no step of any operation
\* (status probe, request, further initialize_vector_db run) unsets either.
C5_StoreStaysSet == [][StoreSet => StoreSet']_vars

\* C5 witness: on a set store one request has been answered 500 and
\* another 200.
C5_Witness ==
    /\ StoreSet
    /\ pc[1] = "done" /\ resp[1].status = 500
    /\ pc[2] = "done" /\ resp[2].status = 200
    /\ req[2].route = "/generate-questions"

\* C6: a request whose external generation call failed is answered 200,
\* with the sentinel text as raw_text and no questions.
C6_GenerationFailureAnswered200 ==
    \A t \in Threads :
        (pc[t] = "done" /\ loc[t].generation_failed)
        => /\ resp[t].status = 200
           /\ resp[t].raw_text = GenerationErrorText
           /\ resp[t].questions = [objective |-> <<>>, subjective |-> <<>>]

\* C6 witness: a request is answered after its generation call failed.
C6_Witness ==
    \E t \in Threads :
        /\ pc[t] = "done"
        /\ loc[t].generation_failed
        /\ ~LacksField(req[t].data)

\* C7: for a non-empty text no chunk that chunk_text returns is empty.
C7_NoEmptyChunk ==
    (out # None /\ inp.text # <<>>)
    => \A i \in 1..Len(Val(out)) : Val(out)[i] # <<>>

\* the chunk is one sentence of the text that is longer than the budget
\* (with the ". " the chunker appends, stripped)
SingleOversizeSentence(chunk, text, chunk_size) ==
    LET sentences == Split(text, DotSpace)
    IN  \E j \in 1..Len(sentences) :
            /\ Len(sentences[j]) > chunk_size
            /\ chunk = Strip(sentences[j] \o DotSpace)

\* C8: for a non-empty text every chunk is at most chunk_size long, unless
\* it is a single sentence that alone is longer than chunk_size.
C8_ChunkWithinBudget ==
    (out # None /\ inp.text # <<>>)
    => \A i \in 1..Len(Val(out)) :
           \/ Len(Val(out)[i]) <= inp.chunk_size
           \/ SingleOversizeSentence(Val(out)[i], inp.text, inp.chunk_size)

\* index i comes before index j: nearer, or as near and earlier
Before(d, i, j) == d[i] < d[j] \/ (d[i] = d[j] /\ i < j)

\* the indices in ascending distance, equal distances in index order
StableOrder(d) ==
    [r \in 1..Len(d) |->
        CHOOSE i \in 1..Len(d) :
            Cardinality({j \in 1..Len(d) : Before(d, j, i)}) = r - 1]

\* C9: semantic_search returns the top_k chunks (all if there are fewer) in
\* ascending distance to the query, equal distances in index order.
C9_NearestFirstTiesByIndex ==
    out # None
    => LET d == Distances(inp.embeddings, Embed(inp.query_text))
           n == Min(inp.top_k, Len(inp.chunks))
       IN  Val(out) = [raised |-> FALSE,
                       value |-> [k \in 1..n |-> inp.chunks[StableOrder(d)[k]]]]

\* C10 as stated: for a reply with both markers and two numbered lines
\* under each, parse_questions returns the two objective and the two
\* subjective texts without their number prefixes, whatever the order of
\* the sections, the indentation, the number of digits and their script.
C10_TwoAndTwoAnyLayout ==
    out # None
    => Val(out) = [objective |-> inp.objective, subjective |-> inp.subjective]

\* the layout the parser recovers: objective section first, numbered lines
\* indented by at most one space or tab, one-digit line numbers
PromptLayout(l) ==
    /\ l.objective_first
    /\ l.indent <= 1
    /\ l.first_number + 1 <= 9

\* C10 amended: the same result, for replies whose objective section comes
\* first, whose numbered lines are indented by at most one space or tab
\* and whose line numbers have one digit.
C10_TwoAndTwoPromptLayout ==
    (out # None /\ PromptLayout(inp))
    => Val(out) = [objective |-> inp.objective, subjective |-> inp.subjective]

\* C10 witness: a tab-indented reply with "\r\n" line ends, numbered 8, 9
\* in Arabic-Indic digits, with a question that starts with a digit and one
\* that holds ". ", has been parsed.
C10_Witness ==
    /\ out # None
    /\ PromptLayout(inp)
    /\ inp.indent = 1
    /\ inp.indent_char = "\t"
    /\ inp.eol = <<"\r", NL>>
    /\ inp.first_number = 8
    /\ inp.numerals = ArabicIndicNumerals
    /\ inp.objective = <<<<"3", "D", " ", "x">>, <<"a", ".", " ", "b">>>>
    /\ Len(Val(out).objective) = 2
    /\ Len(Val(out).subjective) = 2

====
